---- MODULE Spec2Model ----
(***************************************************************************)
(* Model of server/node/routes.js of the Stripe payments demo: the HTTP    *)
(* handlers of the Express app, each an async function that runs           *)
(* atomically between two awaits, and the payment provider they call.      *)
(* A handler step issues at most one provider call and suspends; the       *)
(* provider executes the call in a step of its own (ProviderExec); the     *)
(* handler resumes with the result in a third step (Resume).  Handlers of  *)
(* different requests interleave at these suspension points only.          *)
(***************************************************************************)
EXTENDS Integers, Sequences, FiniteSets, TLC

\* ------------------------------------------------------------------ bounds
\* Number of HTTP requests admitted in one behaviour (their records are kept).
MaxReq == 2
\* Largest quantity a client request carries.
MaxQty == 2
\* The most items in a basket whose total is computed on its own.
MaxItems == 2
\* The highest price, in major units, of a request whose amount is computed
\* on its own.
MaxPrice == 10
\* The most payment methods of a configured list other than the shipped one.
MaxMethods == 3

\* ------------------------------------------------------------- value sets
IntentIds == {"pi_1", "pi_2"}
SourceIds == {"src_1"}
Campaigns == {"camp_1"}
ProductIds == {"prod_1"}
Currencies == {"usd", "eur"}
Prices == {10}

NoIntent == [status |-> "absent"]
NoCall == [op |-> "none"]
NoRet == [done |-> FALSE, ok |-> FALSE, val |-> "none"]
NoResp == [code |-> 0, body |-> "none"]
NoMeta == [campaign_id |-> "none", product_id |-> "none", quantity |-> 0]

\* config.paymentMethods of config.js, as shipped with the demo.
ConfigPaymentMethods == <<"alipay", "au_becs_debit", "card", "ideal">>

VARIABLES
    webhookSecret,  \* config.stripe.webhookSecret is set (truthy)
    paymentMethods, \* config.paymentMethods
    catalog,        \* the price of each SKU products.list() returns
    calc,           \* a computation on its own: its function, input, result
    intents,        \* the provider's PaymentIntents, by id
    sessions,       \* the provider's CheckoutSessions, in creation order
    reqs            \* the requests received so far, each with its handler's state

vars == <<webhookSecret, paymentMethods, catalog, calc, intents, sessions, reqs>>

\* --------------------------------------------------------------- requests
Resp(code, body) == [code |-> code, body |-> body]

\* A request as it arrives: its endpoint and input, nothing done yet.
NewReq(ep, in) ==
    [ep |-> ep, in |-> in, pc |-> "start", auth |-> FALSE,
     call |-> NoCall, ret |-> NoRet, resp |-> NoResp,
     calls |-> <<>>, seen |-> <<>>, retrieved |-> "none",
     logs |-> <<>>, writes |-> 0, sends |-> 0, out |-> <<>>]

Log(r, what) == [r EXCEPT !.logs = Append(@, what)]

\* The handler calls the provider and awaits the answer.
Issue(r, pc, op, id, args) ==
    LET c == [op |-> op, id |-> id, args |-> args]
    IN [r EXCEPT !.pc = pc, !.call = c, !.ret = NoRet,
                 !.calls = Append(@, c),
                 !.seen = Append(@, IF id \in IntentIds THEN intents[id].status
                                    ELSE "absent")]

\* res.status(code).json(body) / res.sendStatus(code): the handler is over.
Respond(r, code, body) ==
    [r EXCEPT !.pc = "done", !.call = NoCall, !.resp = Resp(code, body),
              !.sends = @ + 1]

\* An exception leaves the async handler: the promise it returned rejects.
Throw(r) == [r EXCEPT !.pc = "throw", !.call = NoCall]

\* What the caller gets when an async handler rejects.  routes.js installs no
\* error handler and the handlers are plain async functions: under Express 4
\* the rejection is unhandled and no response is ever sent; under Express 5 it
\* reaches the default error handler, which answers 500 with the stack (the
\* message included) or, in production, with the bare status text.
UnhandledOutcomes ==
    {NoResp, Resp(500, "error_stack"), Resp(500, "Internal Server Error")}

Settle(r) ==
    IF r.pc = "throw"
    THEN {[r EXCEPT !.pc = "crashed", !.resp = o,
                    !.sends = @ + (IF o = NoResp THEN 0 ELSE 1)] :
             o \in UnhandledOutcomes}
    ELSE {r}

\* ------------------------------------------------------- webhook payloads
\* An event as the handler reads it: data.object with its kind (object.object),
\* id, status, metadata.paymentIntent and last_payment_error, and the event
\* type.  "none" is an absent metadata.paymentIntent.  last_payment_error is
\* null or carries payment_method, source, both or neither.
LastErrors == {"null", "neither", "payment_method", "source", "both"}

PaymentIntentEvents ==
    {[object |-> "payment_intent", type |-> t, id |-> "pi_1",
      status |-> "none", pi |-> "none", lpe |-> "null"] :
        t \in {"payment_intent.succeeded", "payment_intent.created"}}
    \cup
    {[object |-> "payment_intent", type |-> "payment_intent.payment_failed",
      id |-> "pi_1", status |-> "none", pi |-> "none", lpe |-> l] :
        l \in LastErrors}

SourceStatuses == {"chargeable", "failed", "canceled", "pending"}

\* Every status with and without a correlated intent; the second intent
\* with a status that routes to a provider call.
SourceEvents ==
    {e \in [object : {"source"},
            type : {"source." \o st : st \in SourceStatuses}, id : SourceIds,
            status : SourceStatuses, pi : IntentIds \cup {"none"},
            lpe : {"null"}] :
        /\ e.type = "source." \o e.status
        /\ e.pi = "pi_2" => e.status = "failed"}

OtherEvents ==
    {[object |-> "charge", type |-> "charge.succeeded", id |-> "ch_1",
      status |-> "succeeded", pi |-> "none", lpe |-> "null"]}

Payloads == PaymentIntentEvents \cup SourceEvents \cup OtherEvents

\* ------------------------------------------------------ POST /webhook
\* Mutant: the outcome of the verification is ignored.
AuthenticatedUnchecked(secret, sigOk) == TRUE

\* Mutant: the signature is asked for even with no secret to verify it.
AuthenticatedBySignature(secret, sigOk) == sigOk

\* Lines 164-186: with a signing secret the event is the one constructEvent
\* verifies; without one it is the parsed body, whatever the signature.
Authenticated(secret, sigOk) == secret => sigOk

LpePaymentMethod(l) == l \in {"payment_method", "both"}
LpeSource(l) == l \in {"source", "both"}

\* Mutant: canceled sources are left out of the cancel branch.
IsCancelCaseFailedOnly(p) ==
    /\ p.object = "source"
    /\ p.status = "failed"
    /\ p.pi # "none"

\* Lines 230-234.
IsCancelCase(p) ==
    /\ p.object = "source"
    /\ p.status \in {"failed", "canceled"}
    /\ p.pi # "none"

\* Mutant: the branch does not ask for metadata.paymentIntent.
IsChargeableCaseAnyMetadata(p) ==
    /\ p.object = "source"
    /\ p.status = "chargeable"

\* Lines 210-214.
IsChargeableCase(p) ==
    /\ p.object = "source"
    /\ p.status = "chargeable"
    /\ p.pi # "none"

\* Mutant: only a succeeded intent is refused.
RequiresSourceUnlessSucceeded(status) == status # "succeeded"

\* Line 222: the intent may be confirmed.
RequiresSource(status) == status = "requires_payment_method"

\* Mutant: the cancel branch does not ask for the status of the source.
CancelSectionAnyStatus(r) ==
    IF r.in.p.object = "source" /\ r.in.p.pi # "none"
    THEN Issue(Log(r, "source_failed"), "cancel", "cancel", r.in.p.pi, "none")
    ELSE Respond(r, 200, "OK")

\* Lines 229-242: the cancel branch, then the acknowledgement.
CancelSection(r) ==
    IF IsCancelCase(r.in.p)
    THEN Issue(Log(r, "source_failed"), "cancel", "cancel", r.in.p.pi, "none")
    ELSE Respond(r, 200, "OK")

\* Lines 209-227, up to the await of retrieve.
ChargeableSection(r) ==
    IF IsChargeableCase(r.in.p)
    THEN Issue(Log(r, "source_chargeable"), "retrieve", "retrieve", r.in.p.pi, "none")
    ELSE CancelSection(r)

\* Mutant: the succeeded case falls into the code of the failed case.
PaymentIntentSectionNoElse(r) ==
    LET p == r.in.p IN
    IF p.object # "payment_intent" THEN ChargeableSection(r)
    ELSE IF p.type \in {"payment_intent.succeeded",
                        "payment_intent.payment_failed"}
         THEN IF p.lpe = "null" THEN Throw(Log(r, "pi_succeeded"))
              ELSE ChargeableSection(Log(r, "pi_payment_failed"))
    ELSE ChargeableSection(r)

\* Lines 189-207.  Reading a property of null or undefined throws.
PaymentIntentSection(r) ==
    LET p == r.in.p IN
    IF p.object # "payment_intent" THEN ChargeableSection(r)
    ELSE IF p.type = "payment_intent.succeeded"
         THEN ChargeableSection(Log(r, "pi_succeeded"))
    ELSE IF p.type = "payment_intent.payment_failed"
         THEN IF p.lpe = "null" THEN Throw(r)
              ELSE IF ~LpePaymentMethod(p.lpe) /\ ~LpeSource(p.lpe) THEN Throw(r)
              ELSE ChargeableSection(Log(r, "pi_payment_failed"))
    ELSE ChargeableSection(r)

\* Lines 160-187: the handler from its start to its first await or its end.
WebhookStart(r, secret) ==
    IF ~Authenticated(secret, r.in.sigOk)
    THEN Respond(Log(r, "signature_failed"), 400, "Bad Request")
    ELSE PaymentIntentSection([r EXCEPT !.auth = TRUE])

\* Mutant: the 403 is sent without returning, and the confirm follows.
AfterRetrieveFallsThrough(r) ==
    IF ~r.ret.ok THEN Throw(r)
    ELSE Issue(IF r.ret.val.status = "requires_payment_method" THEN r
               ELSE [r EXCEPT !.resp = Resp(403, "Forbidden"),
                              !.sends = @ + 1],
               "confirm", "confirm", r.ret.val.id, [source |-> r.in.p.id])

\* Lines 218-226: the handler resumes with the retrieved intent.
AfterRetrieve(r) ==
    IF ~r.ret.ok THEN Throw(r)
    ELSE IF ~RequiresSource(r.ret.val.status) THEN Respond(r, 403, "Forbidden")
    ELSE Issue(r, "confirm", "confirm", r.ret.val.id, [source |-> r.in.p.id])

\* Mutant: a failed confirm is tried again.
AfterConfirmRetries(r) ==
    IF ~r.ret.ok THEN Issue(r, "confirm", "confirm", r.call.id, r.call.args)
    ELSE CancelSection(r)

\* Lines 226-242: the handler resumes after confirm.
AfterConfirm(r) == IF ~r.ret.ok THEN Throw(r) ELSE CancelSection(r)

\* Lines 238-242: the handler resumes after cancel.
AfterCancel(r) == IF ~r.ret.ok THEN Throw(r) ELSE Respond(r, 200, "OK")

\* ------------------------------------------------- client-facing endpoints
\* Line 63: the configured methods without the currency-specific one.
InitPaymentMethods ==
    SelectSeq(paymentMethods, LAMBDA m : m # "au_becs_debit")

\* Mutant: the amount is left in major units.
AmountMajorUnits(price, quantity) == price * quantity

\* Lines 65 and 84.
Amount(price, quantity) == price * quantity * 100

\* Mutant: the quantity is left out of the metadata.
RequestMetadataNoQuantity(in) ==
    [campaign_id |-> in.campaignId, product_id |-> in.productId,
     quantity |-> 0]

\* Lines 68 and 85.
RequestMetadata(in) ==
    [campaign_id |-> in.campaignId, product_id |-> in.productId,
     quantity |-> in.quantity]

\* Lines 56-70: POST /payment_intents up to the await of create.
CreateArgs(in) ==
    [amount |-> Amount(in.price, in.quantity), currency |-> in.currency,
     description |-> in.productName, metadata |-> RequestMetadata(in),
     payment_method_types |-> InitPaymentMethods]

CreateStart(r) == Issue(r, "create", "create", "new", CreateArgs(r.in))

\* Lines 71-75.
AfterCreate(r) ==
    IF r.ret.ok THEN Respond(r, 200, "paymentIntent")
    ELSE Respond(Log(r, "error"), 500, "error_message")

\* Lines 79-86: POST /payment_intents/:id/update_quantity.
UpdateQuantityArgs(in) ==
    [amount |-> Amount(in.price, in.quantity), metadata |-> RequestMetadata(in)]

UpdateQuantityStart(r) ==
    Issue(r, "update_quantity", "update", r.in.id, UpdateQuantityArgs(r.in))

\* Lines 87-91.
AfterUpdateQuantity(r) ==
    IF r.ret.ok THEN Respond(r, 200, "paymentIntent")
    ELSE Respond(Log(r, "error"), 500, "error_message")

\* Lines 146-152: POST /payment_intents/:id/update_currency.
UpdateCurrencyArgs(in) ==
    [currency |-> in.currency, payment_method_types |-> in.payment_methods]

\* Mutant: the handler refuses to update an intent that is past its first
\* status.
UpdateCurrencyStartChecked(r) ==
    IF intents[r.in.id].status = "requires_payment_method"
    THEN Issue(r, "update_currency", "update", r.in.id, UpdateCurrencyArgs(r.in))
    ELSE Respond(r, 500, "error_message")

UpdateCurrencyStart(r) ==
    Issue(r, "update_currency", "update", r.in.id, UpdateCurrencyArgs(r.in))

\* Lines 153-156.
AfterUpdateCurrency(r) ==
    IF r.ret.ok THEN Respond(r, 200, "paymentIntent")
    ELSE Respond(r, 500, "error_message")

\* Lines 96-124: POST /create-checkout-session.  The request's campaign,
\* product and quantity go to line_items[0].price_data.product_data.metadata;
\* the call sets no metadata on the session itself.
SessionArgs(in) ==
    [product_metadata |-> RequestMetadata(in), metadata |-> NoMeta,
     unit_amount |-> in.price * 100, quantity |-> in.quantity,
     currency |-> in.currency]

CheckoutStart(r) ==
    Issue(r, "checkout", "sessions.create", "new", SessionArgs(r.in))

\* Line 125.  The await of line 98 is in no try block.
AfterCheckout(r) == IF r.ret.ok THEN Respond(r, 200, "url") ELSE Throw(r)

\* Lines 272-273: GET /payment_intents/:id/status.
\* Mutant: the status endpoint cancels the intent it is asked about.
StatusStartCancels(r) == Issue(r, "status", "cancel", r.in.id, "none")

StatusStart(r) == Issue(r, "status", "retrieve", r.in.id, "none")

\* Lines 274-280.  The await of line 273 is in no try block.
AfterStatus(r) == IF r.ret.ok THEN Respond(r, 200, "status") ELSE Throw(r)

\* The catalog of inventory.js and the shipping options of config.js.
SkuPrices == [sku_1 |-> 1500, sku_2 |-> 700]
ShippingCosts == [free |-> 0, express |-> 500]

\* Lines 48-51: the reduce over the basket, left to right.
RECURSIVE SumItems(_, _, _)
SumItems(items, skus, a) ==
    IF items = <<>> THEN a
    ELSE SumItems(Tail(items), skus,
                  a + skus[Head(items).parent] * Head(items).quantity)

\* Mutant: the total leaves out the items whose SKU is not in the list.
calculatePaymentAmountSkipping(items, skus) ==
    [ok |-> TRUE,
     total |-> SumItems(SelectSeq(items, LAMBDA it : it.parent \in DOMAIN skus),
                        skus, 0)]

\* Lines 41-53.  An item whose SKU is not in the list makes line 50 read
\* the price of undefined, which throws.
calculatePaymentAmount(items, skus) ==
    IF \E k \in 1..Len(items) : items[k].parent \notin DOMAIN skus
    THEN [ok |-> FALSE, total |-> 0]
    ELSE [ok |-> TRUE, total |-> SumItems(items, skus, 0)]

\* products.getShippingCost of inventory.js: the cost of the shipping option
\* of this id; an unknown id is a lookup error.
getShippingCost(id) ==
    IF id \in DOMAIN ShippingCosts
    THEN [ok |-> TRUE, cost |-> ShippingCosts[id]]
    ELSE [ok |-> FALSE, cost |-> 0]

\* Lines 130-132: POST /payment_intents/:id/shipping_change up to the await
\* of products.list() inside calculatePaymentAmount.
ShippingStart(r) == Issue(r, "catalog", "products.list", "none", "none")

\* Mutant: the lookups are inside the try block.
AfterCatalogCaught(r) ==
    LET t == calculatePaymentAmount(r.in.items, r.ret.val) IN
    IF ~r.ret.ok \/ ~t.ok \/ ~getShippingCost(r.in.shippingOption).ok
    THEN Respond(r, 500, "error_message")
    ELSE Issue(r, "shipping_update", "update", r.in.id,
               [amount |-> t.total + getShippingCost(r.in.shippingOption).cost])

\* Lines 132-138.  Lines 132 and 133 are outside the try block.
AfterCatalog(r) ==
    LET t == calculatePaymentAmount(r.in.items, r.ret.val) IN
    IF ~r.ret.ok THEN Throw(r)
    ELSE IF ~t.ok THEN Throw(r)
    ELSE IF ~getShippingCost(r.in.shippingOption).ok THEN Throw(r)
    ELSE Issue(r, "shipping_update", "update", r.in.id,
               [amount |-> t.total + getShippingCost(r.in.shippingOption).cost])

\* Lines 139-142.
AfterShippingUpdate(r) ==
    IF r.ret.ok THEN Respond(r, 200, "paymentIntent")
    ELSE Respond(r, 500, "error_message")

\* The handler's continuation after the await it is suspended at.
Continue(r) ==
    CASE r.pc = "retrieve" -> AfterRetrieve(r)
      [] r.pc = "confirm" -> AfterConfirm(r)
      [] r.pc = "cancel" -> AfterCancel(r)
      [] r.pc = "create" -> AfterCreate(r)
      [] r.pc = "update_quantity" -> AfterUpdateQuantity(r)
      [] r.pc = "update_currency" -> AfterUpdateCurrency(r)
      [] r.pc = "checkout" -> AfterCheckout(r)
      [] r.pc = "status" -> AfterStatus(r)
      [] r.pc = "catalog" -> AfterCatalog(r)
      [] r.pc = "shipping_update" -> AfterShippingUpdate(r)

\* ------------------------------------------------------------ the provider
Ret(ok, val) == [done |-> TRUE, ok |-> ok, val |-> val]

Pending(i) ==
    /\ i \in 1..Len(reqs)
    /\ reqs[i].call # NoCall
    /\ ~reqs[i].ret.done

Answer(i, ok, val, wrote) ==
    reqs' = [reqs EXCEPT ![i].ret = Ret(ok, val),
                         ![i].writes = @ + (IF wrote THEN 1 ELSE 0)]

FreeIds == {x \in IntentIds : intents[x] = NoIntent}

\* The provider holds an intent of this id.
Exists(id) == id \in IntentIds /\ intents[id] # NoIntent

\* An update sets the fields it names and keeps the others.
Merge(rec, args) ==
    [k \in DOMAIN rec |-> IF k \in DOMAIN args THEN args[k] ELSE rec[k]]

\* Statuses a confirmed intent moves to.
ConfirmedStatuses == {"requires_action", "processing", "succeeded"}

\* The intent a create call makes, before the provider gives it an id.
NewIntent(args, i) ==
    [status |-> "requires_payment_method", amount |-> args.amount,
     currency |-> args.currency, description |-> args.description,
     metadata |-> args.metadata,
     payment_method_types |-> args.payment_method_types,
     source |-> "none", writer |-> i, applied |-> <<>>]

\* Any call can fail at the provider or on the way to it; nothing changes.
ProviderFail(i) ==
    /\ Pending(i)
    /\ Answer(i, FALSE, "provider_error", FALSE)
    /\ UNCHANGED <<webhookSecret, paymentMethods, catalog, calc, intents, sessions>>

\* stripe.paymentIntents.create (line 64).
ProviderCreate(i) ==
    /\ Pending(i)
    /\ reqs[i].call.op = "create"
    /\ FreeIds # {}
    /\ LET id == CHOOSE x \in FreeIds : \A y \in FreeIds : x = y \/ x # "pi_2"
       IN /\ intents' = [intents EXCEPT ![id] = NewIntent(reqs[i].call.args, i)]
          /\ Answer(i, TRUE, [id |-> id, status |-> "requires_payment_method"], TRUE)
    /\ UNCHANGED <<webhookSecret, paymentMethods, catalog, calc, sessions>>

\* stripe.paymentIntents.update (lines 83, 136, 149).
ProviderUpdate(i) ==
    LET c == reqs[i].call IN
    /\ Pending(i)
    /\ c.op = "update"
    /\ Exists(c.id)
    /\ intents' = [intents EXCEPT ![c.id] =
           [Merge(@, c.args) EXCEPT
               !.writer = IF "metadata" \in DOMAIN c.args THEN i ELSE @,
               !.applied = Append(@, i)]]
    /\ Answer(i, TRUE, [id |-> c.id, status |-> intents[c.id].status], TRUE)
    /\ UNCHANGED <<webhookSecret, paymentMethods, catalog, calc, sessions>>

\* stripe.paymentIntents.retrieve (lines 218, 273).
ProviderRetrieve(i) ==
    LET c == reqs[i].call IN
    /\ Pending(i)
    /\ c.op = "retrieve"
    /\ Exists(c.id)
    /\ reqs' = [reqs EXCEPT
           ![i].ret = Ret(TRUE, [id |-> c.id, status |-> intents[c.id].status]),
           ![i].retrieved = intents[c.id].status]
    /\ UNCHANGED <<webhookSecret, paymentMethods, catalog, calc, intents, sessions>>

\* stripe.paymentIntents.confirm (line 226).  The provider confirms an intent
\* that awaits a payment method and refuses any other (ProviderFail).
ProviderConfirm(i) ==
    LET c == reqs[i].call IN
    /\ Pending(i)
    /\ c.op = "confirm"
    /\ Exists(c.id)
    /\ intents[c.id].status = "requires_payment_method"
    /\ \E s \in ConfirmedStatuses :
          /\ intents' = [intents EXCEPT ![c.id].status = s,
                                        ![c.id].source = c.args.source]
          /\ Answer(i, TRUE, [id |-> c.id, status |-> s], TRUE)
    /\ UNCHANGED <<webhookSecret, paymentMethods, catalog, calc, sessions>>

\* stripe.paymentIntents.cancel (line 238).  A succeeded or canceled intent
\* cannot be canceled (ProviderFail).
ProviderCancel(i) ==
    LET c == reqs[i].call IN
    /\ Pending(i)
    /\ c.op = "cancel"
    /\ Exists(c.id)
    /\ intents[c.id].status \notin {"succeeded", "canceled"}
    /\ intents' = [intents EXCEPT ![c.id].status = "canceled"]
    /\ Answer(i, TRUE, [id |-> c.id, status |-> "canceled"], TRUE)
    /\ UNCHANGED <<webhookSecret, paymentMethods, catalog, calc, sessions>>

\* stripe.checkout.sessions.create (line 98).
ProviderSessionCreate(i) ==
    LET c == reqs[i].call IN
    /\ Pending(i)
    /\ c.op = "sessions.create"
    /\ sessions' = Append(sessions, [args |-> c.args, by |-> i])
    /\ Answer(i, TRUE, [id |-> "cs", status |-> "open"], TRUE)
    /\ UNCHANGED <<webhookSecret, paymentMethods, catalog, calc, intents>>

\* products.list (line 42).
CatalogList(i) ==
    /\ Pending(i)
    /\ reqs[i].call.op = "products.list"
    /\ Answer(i, TRUE, catalog, FALSE)
    /\ UNCHANGED <<webhookSecret, paymentMethods, catalog, calc, intents, sessions>>

\* --------------------------------------------------------- handler steps
\* A request arrives and its handler runs to its first await or to its end.
Arrive(r) ==
    /\ Len(reqs) < MaxReq
    /\ \E r2 \in Settle(r) : reqs' = Append(reqs, r2)
    /\ UNCHANGED <<webhookSecret, catalog, calc, intents, sessions>>

\* The awaited call has returned: the handler runs to its next await or end.
Resume(i) ==
    /\ i \in 1..Len(reqs)
    /\ reqs[i].pc \notin {"done", "crashed"}
    /\ reqs[i].ret.done
    /\ \E r2 \in Settle(Continue(reqs[i])) : reqs' = [reqs EXCEPT ![i] = r2]
    /\ UNCHANGED <<webhookSecret, paymentMethods, catalog, calc, intents, sessions>>

\* ----------------------------------------------------------- the requests
\* Each endpoint takes its input from the set it is given: the webhook
\* specification draws deliveries from every payload and one request of each
\* client endpoint, the client specification the other way round.
Baskets ==
    {<<[parent |-> "sku_1", quantity |-> 1]>>,
     <<[parent |-> "sku_9", quantity |-> 1]>>}

Quantities(wide) == IF wide THEN 1..MaxQty ELSE {MaxQty}

CreateInputs(wide) ==
    [currency : {"usd"}, price : Prices, quantity : Quantities(wide),
     productName : {"Tee"}, campaignId : Campaigns, productId : ProductIds]
UpdateQuantityInputs(wide) ==
    [id : {"pi_1"}, price : Prices, quantity : Quantities(wide),
     campaignId : Campaigns, productId : ProductIds]
UpdateCurrencyInputs(wide) ==
    [id : {"pi_1"}, currency : Currencies \ {"usd"},
     payment_methods : {<<"card">>}]
CheckoutInputs(wide) ==
    [currency : {"usd"}, price : Prices, quantity : {MaxQty},
     productName : {"Tee"}, campaignId : Campaigns, productId : ProductIds]
ShippingInputs(wide) ==
    {in \in [id : {"pi_1"}, items : Baskets,
             shippingOption : {"express", "bogus"}] :
        \/ wide /\ (in.items[1].parent = "sku_1" \/ in.shippingOption = "express")
        \/ in.items[1].parent = "sku_1" /\ in.shippingOption = "express"}
StatusInputs(wide) == [id : {"pi_1"}]

\* A delivery: the event in the body and whether its signature verifies.
WebhookInputs(wide) ==
    {in \in [p : Payloads, sigOk : BOOLEAN] :
        \/ wide
        \/ in.sigOk /\ in.p.object = "source" /\ in.p.pi = "pi_1"
                    /\ in.p.status \in {"chargeable", "failed"}}

\* Mutant: the filter removes the method from the configured list itself.
ConfigAfterFilterInPlace(methods) ==
    SelectSeq(methods, LAMBDA m : m # "au_becs_debit")

\* Line 63: filter returns a new array; config.paymentMethods stays as it is.
ConfigAfterFilter(methods) == methods

Webhook(wide) ==
    /\ \E in \in WebhookInputs(wide) :
          Arrive(WebhookStart(NewReq("webhook", in), webhookSecret))
    /\ UNCHANGED paymentMethods
CreateIntent(wide) ==
    /\ \E in \in CreateInputs(wide) : Arrive(CreateStart(NewReq("create", in)))
    /\ paymentMethods' = ConfigAfterFilter(paymentMethods)
UpdateQuantity(wide) ==
    /\ \E in \in UpdateQuantityInputs(wide) :
          Arrive(UpdateQuantityStart(NewReq("update_quantity", in)))
    /\ UNCHANGED paymentMethods
UpdateCurrency(wide) ==
    /\ \E in \in UpdateCurrencyInputs(wide) :
          Arrive(UpdateCurrencyStart(NewReq("update_currency", in)))
    /\ UNCHANGED paymentMethods
ShippingChange(wide) ==
    /\ \E in \in ShippingInputs(wide) :
          Arrive(ShippingStart(NewReq("shipping_change", in)))
    /\ UNCHANGED paymentMethods
CreateCheckoutSession(wide) ==
    /\ \E in \in CheckoutInputs(wide) :
          Arrive(CheckoutStart(NewReq("checkout", in)))
    /\ UNCHANGED paymentMethods
GetStatus(wide) ==
    /\ \E in \in StatusInputs(wide) : Arrive(StatusStart(NewReq("status", in)))
    /\ UNCHANGED paymentMethods

\* Lines 250-259: GET /config answers with the configured list.
ConfigResponse(r, methods) ==
    [Respond(r, 200, "config") EXCEPT !.out = methods]

GetConfig ==
    /\ Arrive(ConfigResponse(NewReq("config", [id |-> "none"]), paymentMethods))
    /\ UNCHANGED paymentMethods

\* ------------------------------------------------------- specification
\* The request that created the intent the provider holds at the start.
FirstOrder ==
    [currency |-> "usd", price |-> 10, quantity |-> 1, productName |-> "Tee",
     campaignId |-> "camp_1", productId |-> "prod_1"]

\* The server holds no state of its own.  The provider holds one intent, made
\* by an earlier POST /payment_intents and awaiting its payment method.
NoCalc == [fn |-> "none", done |-> FALSE]

InitOf(secrets, methodLists, catalogs, calcs) ==
    /\ webhookSecret \in secrets
    /\ paymentMethods \in methodLists
    /\ catalog \in catalogs
    /\ calc \in calcs
    /\ intents = [x \in IntentIds |->
          IF x = "pi_1" THEN NewIntent(CreateArgs(FirstOrder), 0) ELSE NoIntent]
    /\ sessions = <<>>
    /\ reqs = <<>>

\* The configuration and the catalog the demo ships with.
InitWith(secrets) ==
    InitOf(secrets, {ConfigPaymentMethods}, {SkuPrices}, {NoCalc})

\* With and without a webhook signing secret in config.js.
Init == InitWith(BOOLEAN)

\* With the signing secret configured.
InitClient == InitWith({TRUE})

\* Webhook deliveries of every kind, racing with each other and with the
\* client requests that create an intent and update its quantity.
Next ==
    \/ Webhook(TRUE)
    \/ CreateIntent(FALSE)
    \/ UpdateQuantity(FALSE)
    \/ \E i \in 1..MaxReq :
          \/ ProviderFail(i)
          \/ ProviderCreate(i)
          \/ ProviderUpdate(i)
          \/ ProviderRetrieve(i)
          \/ ProviderConfirm(i)
          \/ ProviderCancel(i)
          \/ Resume(i)

Spec == Init /\ [][Next]_vars

\* Client requests of every kind, racing with each other and with the
\* deliveries that confirm or cancel the intent.
NextClient ==
    \/ Webhook(FALSE)
    \/ CreateIntent(TRUE)
    \/ UpdateQuantity(TRUE)
    \/ UpdateCurrency(TRUE)
    \/ ShippingChange(TRUE)
    \/ CreateCheckoutSession(TRUE)
    \/ GetStatus(TRUE)
    \/ \E i \in 1..MaxReq :
          \/ ProviderFail(i)
          \/ ProviderCreate(i)
          \/ ProviderUpdate(i)
          \/ ProviderRetrieve(i)
          \/ ProviderConfirm(i)
          \/ ProviderCancel(i)
          \/ ProviderSessionCreate(i)
          \/ CatalogList(i)
          \/ Resume(i)

SpecClient == InitClient /\ [][NextClient]_vars

\* ------------------------------------------ the configured payment methods
\* The lists config.paymentMethods can hold: the shipped one and every list
\* of up to MaxMethods of these methods.
MethodLists ==
    {ConfigPaymentMethods}
        \cup {l \in UNION {[1..n -> {"card", "ideal", "au_becs_debit"}] :
                              n \in 0..MaxMethods} : TRUE}

InitConfig == InitOf({TRUE}, MethodLists, {SkuPrices}, {NoCalc})

NextConfig ==
    \/ CreateIntent(FALSE)
    \/ GetConfig
    \/ \E i \in 1..Len(reqs) :
          \/ ProviderFail(i)
          \/ ProviderCreate(i)
          \/ Resume(i)

SpecConfig == InitConfig /\ [][NextConfig]_vars

\* ---------------------------------------------- the amounts on their own
\* The catalogs products.list() can return: a price for each SKU on sale.
Catalogs == [{"sku_1", "sku_2"} -> {700, 1500}]

\* An item of a basket (line 131): the SKU it names (sku_9 is not on sale)
\* and how many.
Items == [parent : {"sku_1", "sku_2", "sku_9"}, quantity : 1..MaxQty]

RECURSIVE SeqsUpTo(_, _)
SeqsUpTo(S, n) ==
    IF n = 0 THEN {<<>>}
    ELSE LET shorter == SeqsUpTo(S, n - 1) IN
         shorter \cup {Append(q, x) : q \in shorter, x \in S}

AllBaskets == SeqsUpTo(Items, MaxItems)

\* The body of a create or update_quantity request (lines 58 and 81).
AmountInputs ==
    [id : {"pi_1"}, currency : {"usd"}, price : 0..MaxPrice,
     quantity : 1..MaxQty, productName : {"Tee"}, campaignId : Campaigns,
     productId : ProductIds]

InitAmounts ==
    InitOf({TRUE}, {ConfigPaymentMethods}, Catalogs, {NoCalc})

\* The catalog's prices change between two calls.
Reprice ==
    /\ catalog' \in Catalogs \ {catalog}
    /\ UNCHANGED <<webhookSecret, paymentMethods, calc, intents, sessions, reqs>>

\* Lines 41-53 run for a basket against the catalog as it is now.
Calculate ==
    /\ \E items \in AllBaskets :
          calc' = [fn |-> "calculatePaymentAmount", done |-> TRUE,
                   items |-> items, skus |-> catalog,
                   out |-> calculatePaymentAmount(items, catalog)]
    /\ UNCHANGED <<webhookSecret, paymentMethods, catalog, intents, sessions, reqs>>

\* Lines 64-65 and 83-84: the amount of the provider call of a create and
\* of an update_quantity request with the same body.
Quote ==
    /\ \E in \in AmountInputs :
          calc' = [fn |-> "amount", done |-> TRUE,
                   price |-> in.price, quantity |-> in.quantity,
                   create |-> CreateArgs(in).amount,
                   update |-> UpdateQuantityArgs(in).amount]
    /\ UNCHANGED <<webhookSecret, paymentMethods, catalog, intents, sessions, reqs>>

NextAmounts == Reprice \/ Calculate \/ Quote

SpecAmounts == InitAmounts /\ [][NextAmounts]_vars

\* ------------------------------------------------------------ the claims
Finished(r) == r.pc \in {"done", "crashed"}
Deliveries == {i \in 1..Len(reqs) : reqs[i].ep = "webhook"}
Ack == Resp(200, "OK")
CallsOf(r, op) == {k \in 1..Len(r.calls) : r.calls[k].op = op}
IsSource(p, statuses) ==
    p.object = "source" /\ p.status \in statuses /\ p.pi # "none"

\* C1: with a signing secret configured, a delivery whose signature does not
\* verify is answered 400 and issues no provider call, whatever its payload.
BadSignatureRejected ==
    \A i \in Deliveries :
        webhookSecret /\ ~reqs[i].in.sigOk =>
            /\ reqs[i].pc = "done"
            /\ reqs[i].resp = Resp(400, "Bad Request")
            /\ reqs[i].calls = <<>>
            /\ reqs[i].writes = 0

\* C1 witness: a chargeable source naming an existing intent, badly signed,
\* has been rejected.
BadSignatureSeen ==
    \E i \in Deliveries :
        /\ webhookSecret /\ ~reqs[i].in.sigOk
        /\ IsSource(reqs[i].in.p, {"chargeable"})
        /\ reqs[i].resp.code = 400

\* C2: a delivery of a chargeable, correlated source that retrieves a status
\* other than requires_payment_method issues no confirm, changes nothing at
\* the provider and ends with 403.
ReplayForbidden ==
    \A i \in Deliveries :
        LET r == reqs[i] IN
        /\ r.auth
        /\ IsSource(r.in.p, {"chargeable"})
        /\ r.retrieved \notin {"none", "requires_payment_method"}
        => /\ CallsOf(r, "confirm") = {}
           /\ Len(r.calls) = 1
           /\ r.writes = 0
           /\ r.pc \in {"retrieve", "done"}
           /\ r.pc = "done" => r.resp = Resp(403, "Forbidden")

\* C2 witness: a delivery drove the intent to succeeded and the replay of the
\* same event was answered 403.
ReplaySeen ==
    \E i, j \in Deliveries :
        /\ i < j
        /\ reqs[i].in = reqs[j].in
        /\ CallsOf(reqs[i], "confirm") # {}
        /\ reqs[j].retrieved = "succeeded"
        /\ reqs[j].resp.code = 403

\* The confirm calls issued so far for intent x with source s.
ConfirmsFor(x, s) ==
    {c \in UNION {{<<i, k>> : k \in CallsOf(reqs[i], "confirm")} : i \in Deliveries} :
        /\ reqs[c[1]].calls[c[2]].id = x
        /\ reqs[c[1]].calls[c[2]].args.source = s}

\* C3 as claimed: at most one confirm call is ever issued for an (intent,
\* source) pair, over any interleaving of deliveries.
ConfirmedOncePerPair ==
    \A x \in IntentIds, s \in SourceIds : Cardinality(ConfirmsFor(x, s)) <= 1

\* C3 as amended: each delivery issues at most one confirm call, for the
\* intent and the source it names; duplicated deliveries can each issue one.
ConfirmedOncePerDelivery ==
    \A i \in Deliveries :
        LET r == reqs[i] IN
        /\ Cardinality(CallsOf(r, "confirm")) <= 1
        /\ \A k \in CallsOf(r, "confirm") :
              /\ IsSource(r.in.p, {"chargeable"})
              /\ r.calls[k].id = r.in.p.pi
              /\ r.calls[k].args = [source |-> r.in.p.id]

\* C3 witness: two deliveries of the same event have both issued a confirm.
ConfirmedTwice ==
    \E x \in IntentIds, s \in SourceIds : Cardinality(ConfirmsFor(x, s)) = 2

\* C4 as claimed: when a confirm call is issued for an intent, the intent's
\* status at the provider is requires_payment_method.
ConfirmIssuedWhileAwaiting ==
    \A i \in Deliveries : \A k \in CallsOf(reqs[i], "confirm") :
        reqs[i].seen[k] = "requires_payment_method"

\* C4 as amended: when a confirm call is issued for an intent, the status the
\* same delivery retrieved for that intent just before was
\* requires_payment_method.
ConfirmIssuedAfterCheck ==
    \A i \in Deliveries : \A k \in CallsOf(reqs[i], "confirm") :
        /\ k = 2
        /\ reqs[i].calls[1].op = "retrieve"
        /\ reqs[i].calls[1].id = reqs[i].calls[k].id
        /\ reqs[i].retrieved = "requires_payment_method"

\* C4 witness: a confirm was issued, after a passing check, for an intent that
\* had left requires_payment_method in the meantime.
ConfirmIssuedLate ==
    \E i \in Deliveries : \E k \in CallsOf(reqs[i], "confirm") :
        /\ reqs[i].retrieved = "requires_payment_method"
        /\ reqs[i].seen[k] = "canceled"

\* C5 as claimed: a delivery that passed authentication and was not answered
\* 403 ends with 200.
AckedUnlessForbidden ==
    \A i \in Deliveries :
        reqs[i].auth /\ Finished(reqs[i]) /\ reqs[i].resp.code # 403
            => reqs[i].resp = Ack

\* The last provider call of the request failed.
CallFailed(r) == r.calls # <<>> /\ r.ret.done /\ ~r.ret.ok

\* C6 as claimed: a request one of whose provider calls failed ends with a
\* 500 that carries the provider's message.
FailureAnswered500 ==
    \A i \in 1..Len(reqs) :
        Finished(reqs[i]) /\ CallFailed(reqs[i])
            => /\ reqs[i].resp.code = 500
               /\ reqs[i].resp.body \in {"error_message", "error_stack"}

\* C7: a delivery of a failed or canceled source correlated to an intent
\* issues exactly one call, the cancel of that intent, whatever its status.
FailedSourceCancels ==
    \A i \in Deliveries :
        reqs[i].auth /\ IsSource(reqs[i].in.p, {"failed", "canceled"}) =>
            reqs[i].calls =
                <<[op |-> "cancel", id |-> reqs[i].in.p.pi, args |-> "none"]>>

\* C7 witness: the cancel was issued for an intent that had already succeeded.
CancelOfSucceededSeen ==
    \E i \in Deliveries :
        /\ reqs[i].auth
        /\ IsSource(reqs[i].in.p, {"failed", "canceled"})
        /\ reqs[i].seen = <<"succeeded">>

IsSucceededEvent(p) ==
    p.object = "payment_intent" /\ p.type = "payment_intent.succeeded"

\* C8: every delivery of payment_intent.succeeded logs once, is answered 200
\* and issues no provider call.
SucceededIdempotent ==
    \A i \in Deliveries :
        reqs[i].auth /\ IsSucceededEvent(reqs[i].in.p) =>
            /\ reqs[i].pc = "done"
            /\ reqs[i].logs = <<"pi_succeeded">>
            /\ reqs[i].resp = Ack
            /\ reqs[i].calls = <<>>
            /\ reqs[i].writes = 0

\* C8 witness: the same event was delivered twice, with the same outcome, and
\* the provider's state is the initial one.
SucceededTwice ==
    /\ Len(reqs) = 2
    /\ reqs[1] = reqs[2]
    /\ reqs[1].auth /\ IsSucceededEvent(reqs[1].in.p)
    /\ reqs[1].resp = Ack
    /\ intents["pi_1"] = NewIntent(CreateArgs(FirstOrder), 0)
    /\ intents["pi_2"] = NoIntent

\* The four routed cases of the dispatcher.
Routed(p) ==
    \/ p.object = "payment_intent"
       /\ p.type \in {"payment_intent.succeeded", "payment_intent.payment_failed"}
    \/ IsSource(p, {"chargeable", "failed", "canceled"})

\* C9: a delivery outside the routed cases issues no provider call, logs
\* nothing and is answered 200.
UnroutedIsNoOp ==
    \A i \in Deliveries :
        reqs[i].auth /\ ~Routed(reqs[i].in.p) =>
            /\ reqs[i].pc = "done"
            /\ reqs[i].resp = Ack
            /\ reqs[i].calls = <<>>
            /\ reqs[i].logs = <<>>
            /\ reqs[i].writes = 0

\* C9 witness: a chargeable source with no correlated intent and an object of
\* another kind were both acknowledged.
UnroutedSeen ==
    \E i, j \in Deliveries :
        /\ reqs[i].in.p.object = "source" /\ reqs[i].in.p.status = "chargeable"
        /\ reqs[i].in.p.pi = "none"
        /\ reqs[j].in.p.object = "charge"
        /\ reqs[i].auth /\ reqs[j].auth
        /\ reqs[i].resp = Ack /\ reqs[j].resp = Ack

\* The campaign, product and quantity of a request.
Origin(in) ==
    [campaign_id |-> in.campaignId, product_id |-> in.productId,
     quantity |-> in.quantity]

\* The request whose metadata the provider applied last to intent x.
WriterOf(x) ==
    IF intents[x].writer = 0 THEN FirstOrder ELSE reqs[intents[x].writer].in

IntentsCarryOrigin ==
    \A x \in IntentIds : Exists(x) => intents[x].metadata = Origin(WriterOf(x))

\* C10 as claimed: every intent and every checkout session carries the
\* request's campaign, product and quantity on its own metadata.
OwnMetadataCarriesOrigin ==
    /\ IntentsCarryOrigin
    /\ \A k \in 1..Len(sessions) :
          sessions[k].args.metadata = Origin(reqs[sessions[k].by].in)

\* C10 as amended: an intent carries on its own metadata the campaign, product
\* and quantity of the request that created it or of the last update_quantity
\* applied to it; a checkout session carries them on the product data of its
\* line item and has no metadata of its own.
MetadataCarriesOrigin ==
    /\ IntentsCarryOrigin
    /\ \A k \in 1..Len(sessions) :
          /\ sessions[k].args.product_metadata = Origin(reqs[sessions[k].by].in)
          /\ sessions[k].args.metadata = NoMeta

\* C10 witness: a session was created and the first intent carries the
\* metadata of an update_quantity request.
MetadataRewritten ==
    /\ Len(sessions) = 1
    /\ intents["pi_1"].writer # 0
    /\ intents["pi_1"].metadata.quantity # FirstOrder.quantity

\* ---------------------------------------------------------------- C11
\* The total written out item by item, from the last item back.
RECURSIVE Total(_, _, _)
Total(items, skus, n) ==
    IF n = 0 THEN 0
    ELSE Total(items, skus, n - 1) + skus[items[n].parent] * items[n].quantity

Resolves(items, skus) == \A k \in 1..Len(items) : items[k].parent \in DOMAIN skus

Calculated == calc.fn = "calculatePaymentAmount"

\* C11: for a basket whose items all resolve to a SKU of the catalog,
\* calculatePaymentAmount returns the sum of price * quantity over the items
\* (0 for the empty basket) at the prices the catalog has when it is called;
\* for a basket with an item that does not resolve it raises an error and
\* returns no total.
TotalIsSumOfItems ==
    Calculated =>
        /\ Resolves(calc.items, calc.skus) =>
              /\ calc.out.ok
              /\ calc.out.total = Total(calc.items, calc.skus, Len(calc.items))
        /\ calc.items = <<>> => calc.out.ok /\ calc.out.total = 0
        /\ ~Resolves(calc.items, calc.skus) => ~calc.out.ok

\* A basket of two items, the second of them not on sale, has been refused.
UnresolvedItemRaised ==
    /\ Calculated
    /\ Len(calc.items) = 2
    /\ calc.items[1].parent = "sku_1"
    /\ calc.items[2].parent = "sku_9"
    /\ ~calc.out.ok

\* ---------------------------------------------------------------- C12
Quoted == calc.fn = "amount"

\* C12: create and update_quantity request price * quantity * 100 minor
\* units for every price and quantity of the range (price 10 and quantity 2
\* give 2000), and update_quantity requests the amount create requests for
\* the same inputs.
AmountInMinorUnits ==
    Quoted =>
        /\ calc.create = calc.price * calc.quantity * 100
        /\ calc.update = calc.create
        /\ (calc.price = 10 /\ calc.quantity = 2) => calc.create = 2000

\* Price 10 and quantity 2 have been quoted at 2000.
TwoThousandQuoted ==
    /\ Quoted
    /\ calc.price = 10
    /\ calc.quantity = 2
    /\ calc.create = 2000
    /\ calc.update = 2000

\* ---------------------------------------------------------------- C13
\* The first n methods of a list without au_becs_debit, in the list's order.
RECURSIVE Kept(_, _)
Kept(list, n) ==
    IF n = 0 THEN <<>>
    ELSE IF list[n] = "au_becs_debit" THEN Kept(list, n - 1)
    ELSE Append(Kept(list, n - 1), list[n])

CreateCalls ==
    {reqs[i].calls[1] : i \in {j \in 1..Len(reqs) :
                                  reqs[j].ep = "create" /\ reqs[j].calls # <<>>}}

ConfigAnswers == {i \in 1..Len(reqs) : reqs[i].ep = "config"}

ListSentIsFiltered ==
    /\ \A c \in CreateCalls :
          /\ c.op = "create"
          /\ c.args.payment_method_types
                = Kept(paymentMethods, Len(paymentMethods))
          /\ \A k \in 1..Len(c.args.payment_method_types) :
                c.args.payment_method_types[k] # "au_becs_debit"
    /\ \A i \in ConfigAnswers :
          reqs[i].resp.code = 200 /\ reqs[i].out = paymentMethods

\* C13: the payment-method list sent on create is the configured list with
\* au_becs_debit removed and every other method kept in its order; it never
\* contains au_becs_debit; and no step, a create request's included, changes
\* the configured list, which GET /config returns as it is.
ConfiguredListFiltered ==
    /\ []ListSentIsFiltered
    /\ [][paymentMethods' = paymentMethods]_vars

\* A list holding au_becs_debit between two other methods is configured, a
\* create request has sent its list, and GET /config has answered after it.
ConfigReadAfterCreate ==
    /\ paymentMethods = <<"card", "au_becs_debit", "ideal">>
    /\ Len(reqs) = 2
    /\ reqs[1].ep = "create"
    /\ reqs[1].calls # <<>>
    /\ reqs[1].calls[1].args.payment_method_types = <<"card", "ideal">>
    /\ reqs[2].ep = "config"
    /\ reqs[2].out = <<"card", "au_becs_debit", "ideal">>

\* ---------------------------------------------------------------- C14
FailedPaymentDeliveries ==
    {i \in Deliveries :
        reqs[i].auth /\ reqs[i].in.p.type = "payment_intent.payment_failed"}

\* C14: a payment_intent.payment_failed delivery is an observation only: the
\* handler logs the payment method or source of the last error, issues no
\* provider call, and answers 200 for every such payload, one whose last
\* error has neither field or that has no last error included.
FailedPaymentObservedAndAcked ==
    \A i \in FailedPaymentDeliveries :
        /\ reqs[i].calls = <<>>
        /\ reqs[i].writes = 0
        /\ reqs[i].logs = <<"pi_payment_failed">>
        /\ reqs[i].pc = "done"
        /\ reqs[i].resp = Resp(200, "OK")

\* ---------------------------------------------------------------- C15
Updates ==
    {i \in 1..Len(reqs) :
        reqs[i].ep \in {"update_quantity", "shipping_change", "update_currency"}}

\* The update call a request has issued, if any.
UpdateCallsOf(r) == {k \in 1..Len(r.calls) : r.calls[k].op = "update"}

\* What the request asks the intent to become, read off its body.
Carried(r) ==
    CASE r.ep = "update_quantity" ->
            [amount |-> r.in.price * r.in.quantity * 100,
             metadata |-> Origin(r.in)]
      [] r.ep = "update_currency" ->
            [currency |-> r.in.currency,
             payment_method_types |-> r.in.payment_methods]
      [] r.ep = "shipping_change" ->
            [amount |-> Total(r.in.items, catalog, Len(r.in.items))
                            + ShippingCosts[r.in.shippingOption]]

\* The request's own lookups succeed: nothing in it is unknown.
OwnLookupsResolve(r) ==
    r.ep = "shipping_change" =>
        /\ Resolves(r.in.items, catalog)
        /\ r.in.shippingOption \in {"free", "express"}

\* The request is past the reading of the catalog.
PastCatalog(r) == r.pc # "catalog" /\ ~(r.pc = "crashed" /\ ~r.ret.ok)

\* The places, in the order the provider applied the updates of an intent,
\* of the updates that carry a field.
AppliedCarrying(id, f) ==
    {k \in 1..Len(intents[id].applied) :
        f \in DOMAIN Carried(reqs[intents[id].applied[k]])}

\* The value of a field carried by the last update the provider applied.
LastApplied(id, f) ==
    LET ks == AppliedCarrying(id, f)
        k  == CHOOSE x \in ks : \A y \in ks : y <= x
    IN Carried(reqs[intents[id].applied[k]])[f]

ShippingChanges == {i \in 1..Len(reqs) : reqs[i].ep = "shipping_change"}

\* The catalog has been read and an item or the shipping option of the
\* request is unknown.
LookupFailed(r) ==
    /\ r.pc # "catalog"
    /\ r.calls[1].op = "products.list"
    /\ \/ \E k \in 1..Len(r.in.items) :
             r.in.items[k].parent \notin {"sku_1", "sku_2"}
       \/ r.in.shippingOption \notin {"free", "express"}

\* C16: the amount shipping_change sends to the provider is the total of the
\* basket plus the cost of the chosen shipping option; when an item or the
\* option cannot be resolved the failure leaves the handler unhandled: no
\* update call is issued, the provider changes nothing for the request, and
\* the handler produces neither a 200 nor its 500 JSON response.
ShippingAmountOrUnhandled ==
    \A i \in ShippingChanges :
        LET r == reqs[i] IN
        /\ \A k \in UpdateCallsOf(r) :
              /\ DOMAIN r.calls[k].args = {"amount"}
              /\ r.calls[k].args.amount
                    = Total(r.in.items, SkuPrices, Len(r.in.items))
                        + (IF r.in.shippingOption = "express" THEN 500 ELSE 0)
        /\ LookupFailed(r) =>
              /\ UpdateCallsOf(r) = {}
              /\ r.writes = 0
              /\ r.pc = "crashed"
              /\ r.resp \in UnhandledOutcomes
              /\ r.resp.code # 200
              /\ r.resp.body # "error_message"
              /\ r.resp.body # "paymentIntent"

\* One shipping change has sent 1500 + 500, one with an item that is not on
\* sale has crashed without an update call.
ShippingCrashedOnUnknownItem ==
    /\ Len(reqs) = 2
    /\ reqs[1].ep = "shipping_change"
    /\ UpdateCallsOf(reqs[1]) # {}
    /\ reqs[1].calls[2].args.amount = 2000
    /\ reqs[2].ep = "shipping_change"
    /\ reqs[2].in.items[1].parent = "sku_9"
    /\ reqs[2].pc = "crashed"
    /\ reqs[2].calls = <<[op |-> "products.list", id |-> "none", args |-> "none"]>>

\* ---------------------------------------------------------------- C17
\* Where a delivery was routed: what it logged first and called first.
FirstLog(r) == IF r.logs = <<>> THEN "none" ELSE r.logs[1]
FirstCall(r) == IF r.calls = <<>> THEN NoCall ELSE r.calls[1]

\* C17: with no signing secret configured no delivery is answered 400 and
\* the body alone decides the routing: a delivery whose signature is missing
\* or invalid is routed as a well-signed one with the same body, and an
\* unsigned source failed or canceled event naming an intent issues a cancel
\* call for that intent.
UnsignedRoutedByBody ==
    ~webhookSecret =>
        /\ \A i \in Deliveries :
              /\ reqs[i].resp.code # 400
              /\ reqs[i].auth
              /\ IsSource(reqs[i].in.p, {"failed", "canceled"}) =>
                    reqs[i].calls =
                        <<[op |-> "cancel", id |-> reqs[i].in.p.pi,
                           args |-> "none"]>>
        /\ \A i, j \in Deliveries :
              reqs[i].in.p = reqs[j].in.p =>
                  /\ FirstLog(reqs[i]) = FirstLog(reqs[j])
                  /\ FirstCall(reqs[i]) = FirstCall(reqs[j])

\* With no secret configured, a canceled-source event with a bad signature
\* has canceled the intent it names, after a well-signed delivery of the same
\* body was routed the same way.
UnsignedCancelSeen ==
    /\ ~webhookSecret
    /\ Len(reqs) = 2
    /\ reqs[1].ep = "webhook"
    /\ reqs[2].ep = "webhook"
    /\ reqs[1].in.sigOk
    /\ ~reqs[2].in.sigOk
    /\ reqs[1].in.p = reqs[2].in.p
    /\ reqs[2].in.p.status = "canceled"
    /\ reqs[2].in.p.pi = "pi_1"
    /\ reqs[2].calls = <<[op |-> "cancel", id |-> "pi_1", args |-> "none"]>>
    /\ reqs[2].ret.ok
    /\ intents["pi_1"].status = "canceled"

\* ---------------------------------------------------------------- C18
\* The calls of a delivery that change an intent at the provider.
MutatingCallsOf(r) == CallsOf(r, "confirm") \cup CallsOf(r, "cancel")

\* C18: a webhook delivery sends at most one response and issues at most one
\* confirm or cancel call, never one of each; a delivery answered 400 or 403
\* has sent that response alone, and a delivery answered 403 has issued
\* neither a confirm nor a cancel.
OneResponseOneMutation ==
    \A i \in Deliveries :
        LET r == reqs[i] IN
        /\ r.sends <= 1
        /\ (r.sends = 0) = (r.resp = NoResp)
        /\ Cardinality(MutatingCallsOf(r)) <= 1
        /\ CallsOf(r, "confirm") = {} \/ CallsOf(r, "cancel") = {}
        /\ \A k \in 1..Len(r.calls) :
              r.calls[k].op \in {"retrieve", "confirm", "cancel"}
        /\ r.resp.code \in {400, 403} =>
              /\ r.pc = "done"
              /\ r.sends = 1
              /\ MutatingCallsOf(r) = {}
        /\ r.resp.code = 400 => r.calls = <<>>

\* One delivery was answered 403 after its retrieve and nothing else, and
\* the delivery before it confirmed the intent and was answered 200.
ForbiddenAfterConfirmed ==
    /\ Len(reqs) = 2
    /\ reqs[1].ep = "webhook"
    /\ reqs[2].ep = "webhook"
    /\ Cardinality(CallsOf(reqs[1], "confirm")) = 1
    /\ reqs[1].resp = Ack
    /\ reqs[1].sends = 1
    /\ reqs[2].resp.code = 403
    /\ reqs[2].sends = 1
    /\ Len(reqs[2].calls) = 1
    /\ reqs[2].calls[1].op = "retrieve"

\* ---------------------------------------------------------------- C19
ClientRequests == {i \in 1..Len(reqs) : reqs[i].ep # "webhook"}

\* C19: a confirm call of the webhook handler follows, in its delivery, the
\* retrieve of the intent the source's metadata names, targets that intent
\* and gives the delivery's own source id as the payment source; no request
\* to a client-facing endpoint issues a confirm or a cancel call.
ConfirmOnlyFromWebhook ==
    /\ \A i \in Deliveries :
          LET r == reqs[i] IN
          \A k \in CallsOf(r, "confirm") :
              /\ k = 2
              /\ r.calls[1] = [op |-> "retrieve", id |-> r.in.p.pi,
                               args |-> "none"]
              /\ r.retrieved = "requires_payment_method"
              /\ r.calls[2] = [op |-> "confirm", id |-> r.in.p.pi,
                               args |-> [source |-> r.in.p.id]]
    /\ \A i \in ClientRequests :
          /\ reqs[i].ep \in {"create", "update_quantity", "shipping_change",
                             "update_currency", "status", "checkout"}
          /\ \A k \in 1..Len(reqs[i].calls) :
                reqs[i].calls[k].op \notin {"confirm", "cancel"}

\* A delivery has confirmed the intent its source names, and a status
\* request for the same intent has been answered after its retrieve alone.
ConfirmedAndStatusRead ==
    /\ Len(reqs) = 2
    /\ reqs[1].ep = "webhook"
    /\ reqs[1].in.p.pi = "pi_1"
    /\ reqs[1].calls = <<[op |-> "retrieve", id |-> "pi_1", args |-> "none"],
                         [op |-> "confirm", id |-> "pi_1",
                          args |-> [source |-> "src_1"]]>>
    /\ reqs[1].resp = Ack
    /\ reqs[2].ep = "status"
    /\ reqs[2].calls = <<[op |-> "retrieve", id |-> "pi_1", args |-> "none"]>>
    /\ reqs[2].resp.code = 200
    /\ intents["pi_1"].source = "src_1"

====
